---- MODULE Spec2Model ----
(***************************************************************************)
(* Attendance dashboard (src/app.js): the CSV parser, the student          *)
(* aggregation, the "today" detector and the timer-driven refresh cycle.   *)
(*                                                                         *)
(* A JavaScript string is a sequence of one-character strings, so that     *)
(* trim, split, toLowerCase and the parser's character loop are computed.  *)
(*                                                                         *)
(* Three state machines share the variables:                               *)
(*   Spec / FairSpec  the refresh cycles (loadAndRender under setInterval) *)
(*   SpecCSV          parseCSV applied to bounded inputs                   *)
(*   SpecBuild        buildStudentsMap and computeTodayCounts applied to   *)
(*                    bounded lists of sheets                              *)
(***************************************************************************)
EXTENDS Integers, Sequences, FiniteSets

VARIABLES
    pc,          \* which machine runs and how far it is
    protoName,   \* Object.prototype.name: <<>> while undefined
    fields,      \* SpecCSV: the fields joined into the input line
    text,        \* SpecCSV: parseCSV's argument
    rows,        \* SpecCSV: parseCSV's result
    sheets,      \* buildStudentsMap's argument (Spec: sheets[c], per cycle)
    map,         \* the students map buildStudentsMap returned last
    todayCounts, \* computeTodayCounts' last result
    started,     \* Spec: number of loadAndRender calls made so far
    fetch,       \* Spec: fetch[c][s], the state of cycle c's request for sheet s
    settled,     \* Spec: settled[c], how cycle c's try/catch has ended
    requests,    \* Spec: requests[c][s], number of requests cycle c issued for s
    display      \* Spec: what the page shows

vars == <<pc, protoName, fields, text, rows, sheets, map, todayCounts,
          started, fetch, settled, requests, display>>

csvVars == <<fields, text, rows>>
buildVars == <<sheets, map, todayCounts>>
cycleVars == <<started, fetch, settled, requests, display>>

(***************************************************************************)
(* Bounds                                                                  *)
(***************************************************************************)
MaxLen == 4        \* longest enumerated CSV text
MaxFields == 3     \* most fields joined into one line
MaxFieldLen == 2   \* longest enumerated field
MaxRows == 2       \* most data rows over all the sheets of one list
MaxDates == 2      \* most date columns of a header
MaxCycles == 3     \* most refresh cycles started (the initial load included)
MaxSheets == 2     \* how many of the entries of CSV_URLS are fetched and merged

(***************************************************************************)
(* Strings                                                                 *)
(***************************************************************************)
QUOTE == "\""
COMMA == ","
LF == "\n"
CR == "\r"

\* The sequences over S of length at most n.
SeqUpTo(S, n) == UNION {[1..k -> S] : k \in 0..n}

\* The characters String.prototype.trim removes: WhiteSpace and
\* LineTerminator.  A character TLA+ cannot write is the string of its code
\* point.
WhiteSpace ==
    {"\t", "\n", "\f", "\r", " ", "U+000B", "U+00A0", "U+1680",
     "U+2000", "U+2001", "U+2002", "U+2003", "U+2004", "U+2005", "U+2006",
     "U+2007", "U+2008", "U+2009", "U+200A", "U+2028", "U+2029", "U+202F",
     "U+205F", "U+3000", "U+FEFF"}

IsSpace(ch) == ch \in WhiteSpace

RECURSIVE TrimStart(_)
TrimStart(s) ==
    IF s # <<>> /\ IsSpace(Head(s)) THEN TrimStart(Tail(s)) ELSE s

RECURSIVE TrimEnd(_)
TrimEnd(s) ==
    IF s # <<>> /\ IsSpace(s[Len(s)]) THEN TrimEnd(SubSeq(s, 1, Len(s) - 1)) ELSE s

\* String.prototype.trim
Trim(s) == TrimEnd(TrimStart(s))

\* text.replace(/\r/g, "")
StripCR(s) == SelectSeq(s, LAMBDA ch : ch # CR)

\* text.split("\n"): always at least one line
RECURSIVE SplitLines(_, _, _)
SplitLines(s, i, cur) ==
    IF i > Len(s) THEN <<cur>>
    ELSE IF s[i] = LF THEN <<cur>> \o SplitLines(s, i + 1, <<>>)
    ELSE SplitLines(s, i + 1, Append(cur, s[i]))

\* Array.prototype.join(",")
RECURSIVE Join(_)
Join(fs) ==
    IF fs = <<>> THEN <<>>
    ELSE IF Len(fs) = 1 THEN fs[1]
    ELSE fs[1] \o <<COMMA>> \o Join(Tail(fs))

(***************************************************************************)
(* parseCSV                                                                *)
(***************************************************************************)
\* The inner loop "for (let j = 0; j < line.length; j++)", j counted from 1.
RECURSIVE ParseLoopNoEscape(_, _, _, _, _)
ParseLoopNoEscape(line, j, row, cur, inQuotes) ==
    IF j > Len(line) THEN Append(row, cur)
    ELSE LET ch == line[j] IN
        IF ch = QUOTE THEN ParseLoopNoEscape(line, j + 1, row, cur, ~inQuotes)
        ELSE IF ch = COMMA /\ ~inQuotes
            THEN ParseLoopNoEscape(line, j + 1, Append(row, cur), <<>>, inQuotes)
        ELSE ParseLoopNoEscape(line, j + 1, row, Append(cur, ch), inQuotes)

RECURSIVE ParseLoopTrimsFields(_, _, _, _, _)
ParseLoopTrimsFields(line, j, row, cur, inQuotes) ==
    IF j > Len(line) THEN Append(row, Trim(cur))
    ELSE LET ch == line[j] IN
        IF ch = QUOTE THEN
            IF inQuotes /\ j + 1 <= Len(line) /\ line[j + 1] = QUOTE
                THEN ParseLoopTrimsFields(line, j + 2, row, Append(cur, QUOTE), inQuotes)
                ELSE ParseLoopTrimsFields(line, j + 1, row, cur, ~inQuotes)
        ELSE IF ch = COMMA /\ ~inQuotes
            THEN ParseLoopTrimsFields(line, j + 1, Append(row, Trim(cur)), <<>>, inQuotes)
        ELSE ParseLoopTrimsFields(line, j + 1, row, Append(cur, ch), inQuotes)

RECURSIVE ParseLoop(_, _, _, _, _)
ParseLoop(line, j, row, cur, inQuotes) ==
    IF j > Len(line) THEN Append(row, cur)
    ELSE LET ch == line[j] IN
        IF ch = QUOTE THEN
            IF inQuotes /\ j + 1 <= Len(line) /\ line[j + 1] = QUOTE
                THEN ParseLoop(line, j + 2, row, Append(cur, QUOTE), inQuotes)
                ELSE ParseLoop(line, j + 1, row, cur, ~inQuotes)
        ELSE IF ch = COMMA /\ ~inQuotes
            THEN ParseLoop(line, j + 1, Append(row, cur), <<>>, inQuotes)
        ELSE ParseLoop(line, j + 1, row, Append(cur, ch), inQuotes)

\* One iteration of the outer loop: the row of one physical line.
ParseLine(rawLine) ==
    LET line == Trim(rawLine) IN
    IF line = <<>> THEN <<>> ELSE ParseLoop(line, 1, <<>>, <<>>, FALSE)

parseCSV(t) ==
    LET lines == SplitLines(StripCR(t), 1, <<>>) IN
    [i \in 1..Len(lines) |-> ParseLine(lines[i])]

(***************************************************************************)
(* SpecCSV: parseCSV on bounded inputs                                     *)
(***************************************************************************)
TextChars == {"a", " ", COMMA, QUOTE, LF, CR}
FieldChars == {"a", " "}

\* '"a,b","c""d"'
QuotingExample ==
    <<QUOTE, "a", COMMA, "b", QUOTE, COMMA, QUOTE, "c", QUOTE, QUOTE, "d", QUOTE>>

Texts == SeqUpTo(TextChars, MaxLen) \cup {QuotingExample}
FieldLists == SeqUpTo(SeqUpTo(FieldChars, MaxFieldLen), MaxFields)

InitCSV ==
    /\ \/ pc = "fields" /\ fields \in FieldLists /\ text = <<>>
       \/ pc = "text" /\ fields = <<>> /\ text \in Texts
    /\ rows = <<>>
    /\ sheets = <<>> /\ map = <<>> /\ todayCounts = [present |-> 0, absent |-> 0, unknown |-> 0]
    /\ started = 0 /\ fetch = <<>> /\ settled = <<>> /\ requests = <<>>
    /\ display = <<>> /\ protoName = <<>>

\* parse(join(fields, ","))
ParseJoined ==
    /\ pc = "fields"
    /\ text' = Join(fields)
    /\ rows' = parseCSV(text')
    /\ pc' = "parsedJoined"
    /\ UNCHANGED <<protoName, fields, buildVars, cycleVars>>

\* parse(text)
ParseText ==
    /\ pc = "text"
    /\ rows' = parseCSV(text)
    /\ pc' = "parsedText"
    /\ UNCHANGED <<protoName, fields, text, buildVars, cycleVars>>

NextCSV == ParseJoined \/ ParseText

SpecCSV == InitCSV /\ [][NextCSV]_vars

(***************************************************************************)
(* Reference readings of the parser's contract                             *)
(***************************************************************************)
\* The fields of a line under the textbook quoting automaton, read one
\* character at a time with no lookahead.  q is "out" (outside quotes), "in"
\* (inside quotes) or "pend" (inside quotes, just after a double-quote that
\* either closes the quotes or starts a doubled quote).
RECURSIVE QuoteAutomaton(_, _, _, _)
QuoteAutomaton(s, q, row, cur) ==
    IF s = <<>> THEN Append(row, cur)
    ELSE LET ch == Head(s)
             rest == Tail(s) IN
        CASE q = "in" /\ ch = QUOTE -> QuoteAutomaton(rest, "pend", row, cur)
          [] q = "in" /\ ch # QUOTE -> QuoteAutomaton(rest, "in", row, Append(cur, ch))
          [] q = "pend" /\ ch = QUOTE -> QuoteAutomaton(rest, "in", row, Append(cur, QUOTE))
          [] q # "in" /\ ch = COMMA -> QuoteAutomaton(rest, "out", Append(row, cur), <<>>)
          [] q = "out" /\ ch = QUOTE -> QuoteAutomaton(rest, "in", row, cur)
          [] OTHER -> QuoteAutomaton(rest, "out", row, Append(cur, ch))

\* Number of commas of a line that stand outside quotes.
RECURSIVE CommasOutsideQuotes(_, _)
CommasOutsideQuotes(s, q) ==
    IF s = <<>> THEN 0
    ELSE LET ch == Head(s)
             rest == Tail(s) IN
        CASE q = "in" /\ ch = QUOTE -> CommasOutsideQuotes(rest, "pend")
          [] q = "in" /\ ch # QUOTE -> CommasOutsideQuotes(rest, "in")
          [] q = "pend" /\ ch = QUOTE -> CommasOutsideQuotes(rest, "in")
          [] q # "in" /\ ch = COMMA -> 1 + CommasOutsideQuotes(rest, "out")
          [] q = "out" /\ ch = QUOTE -> CommasOutsideQuotes(rest, "in")
          [] OTHER -> CommasOutsideQuotes(rest, "out")

\* The physical lines of the parsed text, each trimmed as a whole.
TrimmedLines == LET ls == SplitLines(StripCR(text), 1, <<>>) IN
    [i \in 1..Len(ls) |-> Trim(ls[i])]

\* The fields with the line's outer whitespace removed: leading whitespace of
\* the first field and trailing whitespace of the last.
EdgeTrimmed(fs) ==
    [i \in 1..Len(fs) |->
        IF Len(fs) = 1 THEN Trim(fs[i])
        ELSE IF i = 1 THEN TrimStart(fs[i])
        ELSE IF i = Len(fs) THEN TrimEnd(fs[i])
        ELSE fs[i]]

\* C6 as stated: parse(join(fields, ",")) is exactly one row holding the
\* original fields unchanged, for every list of fields free of commas, quotes
\* and line breaks.
C6_RoundTripAsClaimed ==
    pc = "parsedJoined" => rows = <<fields>>

\* C6 amended: parse(join(fields, ",")) is exactly one row.  The row is the
\* original fields whenever the joined line is non-empty and neither starts
\* nor ends with whitespace; in general the line is trimmed as a whole before
\* it is split, so the row is the fields with the line's outer whitespace
\* removed (no fields at all when nothing is left), and whitespace inside the
\* line, in particular all of every inner field, is kept.
C6_RoundTripOfTrimmedLine ==
    pc = "parsedJoined" =>
        /\ Len(rows) = 1
        /\ (text # <<>> /\ Trim(text) = text) => rows[1] = fields
        /\ rows[1] = IF Trim(text) = <<>> THEN <<>> ELSE EdgeTrimmed(fields)

\* C6 witness: three fields, the inner one a lone space, come back unchanged.
C6_Witness ==
    /\ pc = "parsedJoined"
    /\ Len(fields) = 3 /\ fields[2] = <<" ">> /\ fields[1] = <<"a", " ">>
    /\ rows = <<fields>>

\* C7: within a line a double-quote toggles quoted mode and is not emitted, a
\* comma separates fields only outside quotes, a doubled double-quote inside
\* quotes is one literal double-quote; so every non-blank line yields the
\* fields of the quoting automaton, one more than its commas outside quotes,
\* and '"a,b","c""d"' yields the single row ["a,b", 'c"d'].
C7_QuotingStateMachine ==
    pc = "parsedText" =>
        /\ Len(rows) = Len(TrimmedLines)
        /\ \A i \in 1..Len(rows) :
            TrimmedLines[i] # <<>> =>
                /\ rows[i] = QuoteAutomaton(TrimmedLines[i], "out", <<>>, <<>>)
                /\ Len(rows[i]) = 1 + CommasOutsideQuotes(TrimmedLines[i], "out")
        /\ text = QuotingExample =>
            rows = << << <<"a", COMMA, "b">>, <<"c", QUOTE, "d">> >> >>

\* C7 witness: the quoting example has been parsed to its two fields.
C7_Witness ==
    /\ pc = "parsedText"
    /\ text = QuotingExample
    /\ rows = << << <<"a", COMMA, "b">>, <<"c", QUOTE, "d">> >> >>

(***************************************************************************)
(* buildStudentsMap                                                        *)
(*                                                                         *)
(* map is a plain object ({}).  It is modelled as the sequence of its own  *)
(* entries in the order JavaScript enumerates them: keys that are array    *)
(* indices in ascending numeric order, then the other keys in insertion    *)
(* order.  A read map[roll] that finds no own entry falls through to       *)
(* Object.prototype.  student.subjects is keyed by the subject names of    *)
(* CSV_URLS, none an array index, so it is in insertion order; assigning   *)
(* to an existing key keeps its position.                                  *)
(***************************************************************************)
nameIdx == 1
rollIdx == 2
dateStart == 3

Max(a, b) == IF a >= b THEN a ELSE b

\* (row[idx] || ""), idx counted from 0 as in the source
CellAt(row, idx) == IF idx + 1 <= Len(row) THEN row[idx + 1] ELSE <<>>

\* String.prototype.toLowerCase on the letters the inputs use
LowerChar(ch) ==
    CASE ch = "P" -> "p" [] ch = "A" -> "a" [] ch = "B" -> "b" [] OTHER -> ch

ToLowerCase(s) == [i \in 1..Len(s) |-> LowerChar(s[i])]

\* const classesHeld = Math.max(0, header.length - dateStart)
ClassesHeld(header) == Max(0, Len(header) - dateStart)

\* isPresent for column c of the row
IsPresent(row, c) == ToLowerCase(Trim(CellAt(row, c))) = <<"p">>

\* The loop "for (let c = dateStart; c < header.length; c++)"
PresentByDate(header, row) ==
    [k \in 1..ClassesHeld(header) |->
        IF IsPresent(row, dateStart + k - 1) THEN 1 ELSE 0]

RECURSIVE SumSeq(_)
SumSeq(q) == IF q = <<>> THEN 0 ELSE Head(q) + SumSeq(Tail(q))

\* The subject record the row yields
SubjectRecord(subject, header, row) ==
    LET presentByDate == PresentByDate(header, row)
        subjClassesHeld == ClassesHeld(header)
        presentTotal == SumSeq(presentByDate) IN
    [subject |-> subject,
     classesHeld |-> subjClassesHeld,
     present |-> presentTotal,
     absent |-> subjClassesHeld - presentTotal,
     presentByDate |-> presentByDate]

\* Index of the own entry of q whose field `key` is k, 0 if there is none
IndexOf(q, key, k) ==
    IF \E i \in 1..Len(q) : q[i][key] = k
        THEN CHOOSE i \in 1..Len(q) : q[i][key] = k
        ELSE 0

\* The members every plain object inherits from Object.prototype
InheritedKeys ==
    {<<"c", "o", "n", "s", "t", "r", "u", "c", "t", "o", "r">>,
     <<"_", "_", "d", "e", "f", "i", "n", "e", "G", "e", "t", "t", "e", "r", "_", "_">>,
     <<"_", "_", "d", "e", "f", "i", "n", "e", "S", "e", "t", "t", "e", "r", "_", "_">>,
     <<"h", "a", "s", "O", "w", "n", "P", "r", "o", "p", "e", "r", "t", "y">>,
     <<"_", "_", "l", "o", "o", "k", "u", "p", "G", "e", "t", "t", "e", "r", "_", "_">>,
     <<"_", "_", "l", "o", "o", "k", "u", "p", "S", "e", "t", "t", "e", "r", "_", "_">>,
     <<"i", "s", "P", "r", "o", "t", "o", "t", "y", "p", "e", "O", "f">>,
     <<"p", "r", "o", "p", "e", "r", "t", "y", "I", "s", "E", "n", "u", "m", "e", "r", "a", "b", "l", "e">>,
     <<"t", "o", "S", "t", "r", "i", "n", "g">>,
     <<"v", "a", "l", "u", "e", "O", "f">>,
     <<"_", "_", "p", "r", "o", "t", "o", "_", "_">>,
     <<"t", "o", "L", "o", "c", "a", "l", "e", "S", "t", "r", "i", "n", "g">>}

ProtoKey == <<"_", "_", "p", "r", "o", "t", "o", "_", "_">>
NameKey == <<"n", "a", "m", "e">>

\* map[roll] finds no own entry but an inherited value, which is truthy: a
\* function, Object.prototype itself (the __proto__ accessor), or the string
\* an earlier call stored as Object.prototype.name.
ReadsInherited(m, roll, proto) ==
    /\ IndexOf(m, "roll", roll) = 0
    /\ roll \in InheritedKeys \/ (roll = NameKey /\ proto # <<>>)

Digits == <<"0", "1", "2", "3", "4", "5", "6", "7", "8", "9">>
IsDigit(ch) == \E d \in 1..10 : Digits[d] = ch
DigitValue(ch) == (CHOOSE d \in 1..10 : Digits[d] = ch) - 1

\* a < b for digit strings of one length
RECURSIVE DigitsLess(_, _)
DigitsLess(a, b) ==
    IF a = <<>> THEN FALSE
    ELSE IF Head(a) # Head(b) THEN DigitValue(Head(a)) < DigitValue(Head(b))
    ELSE DigitsLess(Tail(a), Tail(b))

\* The key is an array index: a canonical decimal numeral below 2^32 - 1
IsArrayIndex(k) ==
    /\ k # <<>>
    /\ \A i \in 1..Len(k) : IsDigit(k[i])
    /\ Len(k) = 1 \/ k[1] # "0"
    /\ Len(k) < 10
        \/ (Len(k) = 10 /\ DigitsLess(k, <<"4", "2", "9", "4", "9", "6", "7", "2", "9", "5">>))

\* Numeric order of two array indices
IndexLess(a, b) == Len(a) < Len(b) \/ (Len(a) = Len(b) /\ DigitsLess(a, b))

\* Key k is enumerated before the own entry e
EnumeratedBefore(k, e) ==
    IsArrayIndex(k) /\ (~IsArrayIndex(e.roll) \/ IndexLess(k, e.roll))

\* map[roll] = student for a roll that is no own key yet
DefineEntry(m, student) ==
    LET before == {i \in 1..Len(m) : ~EnumeratedBefore(student.roll, m[i])}
        n == Cardinality(before) IN
    \* the entries not enumerated after the new key are a prefix of m
    SubSeq(m, 1, n) \o <<student>> \o SubSeq(m, n + 1, Len(m))

\* map[roll].subjects[sheet.subject] = rec
PutSubject(subjects, rec) ==
    LET i == IndexOf(subjects, "subject", rec.subject) IN
    IF i = 0 THEN Append(subjects, rec) ELSE [subjects EXCEPT ![i] = rec]

AddTotalsAssignsAbsent(totals, rec) ==
    [totals EXCEPT !.classesHeld = @ + rec.classesHeld,
                   !.present = @ + rec.present,
                   !.absent = rec.absent]

\* map[roll].totals.classesHeld += ...; .present += ...; .absent += ...
AddTotals(totals, rec) ==
    [totals EXCEPT !.classesHeld = @ + rec.classesHeld,
                   !.present = @ + rec.present,
                   !.absent = @ + rec.absent]

Unknown == <<"U", "n", "k", "n", "o", "w", "n">>

NewStudent(name, roll) ==
    [name |-> IF name # <<>> THEN name ELSE Unknown,
     roll |-> roll,
     subjects |-> <<>>,
     totals |-> [classesHeld |-> 0, present |-> 0, absent |-> 0,
                 percent |-> <<0, 1>>, status |-> "Needs Improvement"]]

\* if (!map[roll]) {...} else if (!map[roll].name && name) {...}
\* for a roll that is an own key or that map[roll] does not find at all
NamedStudents(m, name, roll) ==
    LET i == IndexOf(m, "roll", roll) IN
    IF i = 0 THEN DefineEntry(m, NewStudent(name, roll))
    ELSE IF m[i].name = <<>> /\ name # <<>> THEN [m EXCEPT ![i].name = name]
    ELSE m

\* The same statement for a roll that map[roll] finds on Object.prototype:
\* no student is made; the else-if assigns Object.prototype.name when the
\* value read is Object.prototype and has no name yet (a function has a
\* name, a string takes no property).  The value of Object.prototype.name.
NamedInherited(proto, name, roll) ==
    IF roll = ProtoKey /\ proto = <<>> /\ name # <<>> THEN name ELSE proto

\* The body of the loop over the data rows, on the call's state
\* [map, proto (Object.prototype.name), threw (a TypeError ended the call)].
\* For an inherited map[roll], map[roll].subjects is undefined and the
\* assignment to map[roll].subjects[sheet.subject] throws.
ProcessRow(st, subject, header, row) ==
    LET name == Trim(CellAt(row, nameIdx))
        roll == Trim(CellAt(row, rollIdx)) IN
    IF st.threw \/ roll = <<>> THEN st
    ELSE IF ReadsInherited(st.map, roll, st.proto)
        THEN [st EXCEPT !.proto = NamedInherited(st.proto, name, roll), !.threw = TRUE]
    ELSE LET m1 == NamedStudents(st.map, name, roll)
             i == IndexOf(m1, "roll", roll)
             rec == SubjectRecord(subject, header, row) IN
         [st EXCEPT !.map = [m1 EXCEPT ![i].subjects = PutSubject(@, rec),
                                       ![i].totals = AddTotals(@, rec)]]

RECURSIVE ProcessRows(_, _, _, _)
ProcessRows(st, sheet, header, r) ==
    IF r > Len(sheet.rows) THEN st
    ELSE ProcessRows(ProcessRow(st, sheet.subject, header, sheet.rows[r]),
                     sheet, header, r + 1)

\* The body of the loop over the sheets
ProcessSheet(st, sheet) ==
    IF Len(sheet.rows) < 1 THEN st
    ELSE ProcessRows(st, sheet, sheet.rows[1], 2)

RECURSIVE ProcessSheets(_, _)
ProcessSheets(st, ss) ==
    IF ss = <<>> THEN st ELSE ProcessSheets(ProcessSheet(st, Head(ss)), Tail(ss))

\* "compute overall percent and status".  percent is the fraction
\* <<numerator, denominator>>; p / c >= 0.75 in floating point exactly when
\* 4p >= 3c, 0.75 being a binary fraction.
WithPercent(t) ==
    LET percent == IF t.classesHeld > 0 THEN <<t.present, t.classesHeld>> ELSE <<0, 1>> IN
    [t EXCEPT !.percent = percent,
              !.status = IF 4 * percent[1] >= 3 * percent[2]
                            THEN "Good" ELSE "Needs Improvement"]

\* The call buildStudentsMap(sheets) on a page whose Object.prototype.name is
\* proto: [map, proto, threw].  subjectLastColIndex, the other half of the
\* returned pair, is written per sheet and read by nothing.  The closing
\* "for (const roll in map)" also visits an enumerable Object.prototype.name,
\* where map[roll].totals is undefined and the assignment to t.percent throws.
buildStudentsMap(ss, proto) ==
    LET st == ProcessSheets([map |-> <<>>, proto |-> proto, threw |-> FALSE], ss) IN
    IF st.threw THEN st
    ELSE IF st.proto # <<>> THEN [st EXCEPT !.threw = TRUE]
    ELSE [st EXCEPT !.map = [i \in 1..Len(st.map) |->
                                [st.map[i] EXCEPT !.totals = WithPercent(@)]]]

(***************************************************************************)
(* computeTodayCounts                                                      *)
(***************************************************************************)
\* The loop over student.subjects, from subject number k on, with its break:
\* <<anySubjectWithDate, anyPresent>>
RECURSIVE ScanSubjectsAnyDate(_, _, _)
ScanSubjectsAnyDate(subjects, k, anySubjectWithDate) ==
    IF k > Len(subjects) THEN <<anySubjectWithDate, FALSE>>
    ELSE LET s == subjects[k]
             lastIndex == Len(s.presentByDate) - 1 IN
        IF lastIndex >= 0
            THEN IF \E d \in 1..Len(s.presentByDate) : s.presentByDate[d] = 1
                    THEN <<TRUE, TRUE>>
                    ELSE ScanSubjectsAnyDate(subjects, k + 1, TRUE)
            ELSE ScanSubjectsAnyDate(subjects, k + 1, anySubjectWithDate)

RECURSIVE ScanSubjects(_, _, _)
ScanSubjects(subjects, k, anySubjectWithDate) ==
    IF k > Len(subjects) THEN <<anySubjectWithDate, FALSE>>
    ELSE LET s == subjects[k]
             lastIndex == Len(s.presentByDate) - 1 IN
        IF lastIndex >= 0
            THEN IF s.presentByDate[lastIndex + 1] = 1
                    THEN <<TRUE, TRUE>>
                    ELSE ScanSubjects(subjects, k + 1, TRUE)
            ELSE ScanSubjects(subjects, k + 1, anySubjectWithDate)

\* The loop over the students, from student number i on
RECURSIVE CountToday(_, _, _)
CountToday(m, i, c) ==
    IF i > Len(m) THEN c
    ELSE LET scan == ScanSubjects(m[i].subjects, 1, FALSE) IN
        CountToday(m, i + 1,
            IF ~scan[1] THEN [c EXCEPT !.unknown = @ + 1]
            ELSE IF scan[2] THEN [c EXCEPT !.present = @ + 1]
            ELSE [c EXCEPT !.absent = @ + 1])

\* Called only with a map buildStudentsMap returned, so on a page whose
\* Object.prototype has no enumerable member for the loops to visit.
computeTodayCounts(m) ==
    CountToday(m, 1, [present |-> 0, absent |-> 0, unknown |-> 0])

(***************************************************************************)
(* SpecBuild: buildStudentsMap and computeTodayCounts on bounded sheets,   *)
(* on a freshly loaded page (Object.prototype.name undefined)              *)
(***************************************************************************)
\* The subjects of CSV_URLS, in its order
CSV_URLS == <<"DBMS", "Soft Computing", "DAA", "OOSD With C++">>

\* The entries of CSV_URLS the model fetches and merges
Subjects == SubSeq(CSV_URLS, 1, IF MaxSheets < Len(CSV_URLS) THEN MaxSheets ELSE Len(CSV_URLS))

\* A header of three leading columns and nd date columns
Header(nd) == [i \in 1..(dateStart + nd) |-> <<"h">>]

\* A blank first line (parseCSV gives it no fields), or a header with dates
Headers == {<<>>} \cup {Header(nd) : nd \in 1..MaxDates}

Names == {<<>>, <<"A">>, <<"U+00A0", "B">>}
MarkP == <<"P", " ">>
MarkA == <<"A">>

\* Data rows: rows of roll 1 without marks that vary the name; a row of
\* roll 2; rows of roll 1 with one or two marks (fewer, as many or more than
\* the header has dates); a row with a mark and no roll; rows whose roll is a
\* member of Object.prototype.
RowPool ==
    {<<(<<"x">>), name, (<<"1">>)>> : name \in Names}
    \cup {<<(<<"x">>), (<<"A">>), (<<"2", " ">>)>>}
    \cup {<<(<<"x">>), (<<"A">>), (<<"1">>)>> \o marks :
            marks \in {<<MarkP>>, <<MarkA>>, <<MarkP, MarkA>>}}
    \cup {<<(<<"x">>), (<<"A">>), (<<" ">>), MarkP>>}
    \cup {<<(<<"x">>), (<<"A">>), <<"c", "o", "n", "s", "t", "r", "u", "c", "t", "o", "r">>, MarkP>>,
          <<(<<"x">>), (<<"A">>), ProtoKey, MarkP>>}

\* The ways to cut d into n consecutive pieces
RECURSIVE Cuts(_, _)
Cuts(d, n) ==
    IF n = 1 THEN {<<d>>}
    ELSE UNION {{<<SubSeq(d, 1, k)>> \o rest : rest \in Cuts(SubSeq(d, k + 1, Len(d)), n - 1)} :
                    k \in 0..Len(d)}

InitBuild ==
    /\ pc = "sheets"
    /\ \E hs \in [1..Len(Subjects) -> Headers], d \in SeqUpTo(RowPool, MaxRows) :
        \E cut \in Cuts(d, Len(Subjects)) :
            sheets = [s \in 1..Len(Subjects) |->
                        [subject |-> Subjects[s], rows |-> <<hs[s]>> \o cut[s]]]
    /\ map = <<>> /\ todayCounts = [present |-> 0, absent |-> 0, unknown |-> 0]
    /\ protoName = <<>>
    /\ fields = <<>> /\ text = <<>> /\ rows = <<>>
    /\ started = 0 /\ fetch = <<>> /\ settled = <<>> /\ requests = <<>>
    /\ display = <<>>

\* const { map, subjectLastColIndex } = buildStudentsMap(sheets); a TypeError
\* leaves the try block.
Build ==
    /\ pc = "sheets"
    /\ LET result == buildStudentsMap(sheets, protoName) IN
        /\ protoName' = result.proto
        /\ IF result.threw
            THEN pc' = "threw" /\ map' = map
            ELSE pc' = "built" /\ map' = result.map
    /\ UNCHANGED <<sheets, todayCounts, csvVars, cycleVars>>

\* const todayCounts = computeTodayCounts(studentsMap, subjectLastColIndex)
Today ==
    /\ pc = "built"
    /\ todayCounts' = computeTodayCounts(map)
    /\ pc' = "counted"
    /\ UNCHANGED <<protoName, sheets, map, csvVars, cycleVars>>

NextBuild == Build \/ Today

SpecBuild == InitBuild /\ [][NextBuild]_vars

(***************************************************************************)
(* Claims about the aggregation                                            *)
(***************************************************************************)
\* Sum of field f over the entries of a student's final subjects mapping
RECURSIVE SumOver(_, _)
SumOver(subjects, f) ==
    IF subjects = <<>> THEN 0 ELSE Head(subjects)[f] + SumOver(Tail(subjects), f)

\* C3 as stated: after buildStudentsMap every student's totals.classesHeld,
\* totals.present and totals.absent equal the sums of those fields over the
\* student's final subjects mapping, several rows with one roll included.
C3_TotalsAreSumOverSubjects ==
    pc = "built" =>
        \A i \in 1..Len(map) :
            /\ map[i].totals.classesHeld = SumOver(map[i].subjects, "classesHeld")
            /\ map[i].totals.present = SumOver(map[i].subjects, "present")
            /\ map[i].totals.absent = SumOver(map[i].subjects, "absent")

\* C4: after buildStudentsMap (that is, whenever it returns a map) every
\* student has totals.present + totals.absent = totals.classesHeld.
C4_PresentPlusAbsentIsHeld ==
    pc = "built" =>
        \A i \in 1..Len(map) :
            map[i].totals.present + map[i].totals.absent = map[i].totals.classesHeld

\* The data rows of sheet s that name a roll
RollRows(s) ==
    {r \in 2..Len(sheets[s].rows) : Trim(CellAt(sheets[s].rows[r], rollIdx)) # <<>>}

\* C4 witness: a student built from two rows of one sheet, one of them
\* shorter than the header, with classes held and both present and absent marks.
C4_Witness ==
    /\ pc = "built"
    /\ \E s \in 1..Len(sheets) :
        /\ Cardinality(RollRows(s)) = 2
        /\ \E r \in RollRows(s) : Len(sheets[s].rows[r]) < Len(sheets[s].rows[1])
    /\ Len(map) = 1
    /\ map[1].totals.present > 0 /\ map[1].totals.absent > 0

\* The students of the map by bucket, read off the claim
LastIsOne(sub) ==
    sub.presentByDate # <<>> /\ sub.presentByDate[Len(sub.presentByDate)] = 1

PresentToday ==
    {i \in 1..Len(map) : \E k \in 1..Len(map[i].subjects) : LastIsOne(map[i].subjects[k])}

UnknownToday ==
    {i \in 1..Len(map) :
        \A k \in 1..Len(map[i].subjects) : map[i].subjects[k].presentByDate = <<>>}

AbsentToday == (1..Len(map)) \ (PresentToday \cup UnknownToday)

\* C5: computeTodayCounts counts a student present if some subject's last
\* presentByDate element is 1, absent if none is but some subject has a
\* non-empty presentByDate, unknown otherwise; the three counts add up to the
\* number of students.
C5_TodayBuckets ==
    pc = "counted" =>
        /\ todayCounts.present = Cardinality(PresentToday)
        /\ todayCounts.absent = Cardinality(AbsentToday)
        /\ todayCounts.unknown = Cardinality(UnknownToday)
        /\ todayCounts.present + todayCounts.absent + todayCounts.unknown = Len(map)

\* C5 witness: a student whose first subject ends absent after an earlier
\* present mark and whose second subject ends present is counted present.
C5_Witness ==
    /\ pc = "counted"
    /\ todayCounts = [present |-> 1, absent |-> 0, unknown |-> 0]
    /\ \E i \in PresentToday :
        /\ Len(map[i].subjects) = 2
        /\ map[i].subjects[1].presentByDate = <<1, 0>>
        /\ LastIsOne(map[i].subjects[2])

\* The trimmed names of the rows processed for a roll, in processing order
RECURSIVE NamesInRows(_, _, _)
NamesInRows(rs, r, roll) ==
    IF r > Len(rs) THEN <<>>
    ELSE (IF Trim(CellAt(rs[r], rollIdx)) = roll
            THEN <<Trim(CellAt(rs[r], nameIdx))>> ELSE <<>>)
         \o NamesInRows(rs, r + 1, roll)

RECURSIVE NamesForRoll(_, _)
NamesForRoll(ss, roll) ==
    IF ss = <<>> THEN <<>>
    ELSE NamesInRows(Head(ss).rows, 2, roll) \o NamesForRoll(Tail(ss), roll)

FirstNonEmptyName(names) ==
    LET nonEmpty == SelectSeq(names, LAMBDA n : n # <<>>) IN
    IF nonEmpty = <<>> THEN Unknown ELSE Head(nonEmpty)

\* C8 as stated: after buildStudentsMap each student's name is the first
\* non-empty trimmed name among the rows processed for that roll, and
\* "Unknown" when those rows carry no non-empty name.
C8_FirstNonEmptyNameWins ==
    pc = "built" =>
        \A i \in 1..Len(map) :
            map[i].name = FirstNonEmptyName(NamesForRoll(sheets, map[i].roll))

(***************************************************************************)
(* Spec: the refresh cycles.  loadAndRender is called once at load and     *)
(* then by every tick of setInterval(loadAndRender, REFRESH_MS); the timer *)
(* neither awaits the promise a call returns nor looks at earlier calls.   *)
(* A cycle is numbered by its start.  One action is one task of the event  *)
(* loop together with the promise continuations it triggers.               *)
(***************************************************************************)
Cycles == 1..MaxCycles
SheetIds == 1..Len(Subjects)

\* Response bodies a sheet URL can return: a header with one date and one
\* student row, whose roll is "1" or a member name of Object.prototype.
HeaderLine == Join(<<(<<"h">>), (<<"h">>), (<<"h">>), (<<"h">>)>>)
Body(roll) == HeaderLine \o <<LF>> \o Join(<<(<<"x">>), (<<"A">>), roll, (<<"P">>)>>)
Bodies ==
    {Body(<<"1">>), Body(<<"c", "o", "n", "s", "t", "r", "u", "c", "t", "o", "r">>), Body(ProtoKey)}

\* The array Promise.all is filling for a cycle
NoSheets == [s \in SheetIds |-> [subject |-> Subjects[s], rows |-> <<>>]]

\* The page before any cycle has written to it (cycle 0)
InitialDisplay ==
    [summaryCards |-> [cycle |-> 0, totalStudents |-> 0],
     studentsTbody |-> [kind |-> "static", cycle |-> 0, students |-> 0],
     lastUpdated |-> [kind |-> "static", cycle |-> 0]]

\* The sheets of cycle c whose response has arrived, given the fetch states f
Fetched(f, c) == {s \in SheetIds : f[c][s] = "ok"}

\* renderSummary, renderStudentsTable and the "Last updated" stamp of the try
\* block: all three elements are rewritten from cycle c's map m.  The display
\* records, per element, the cycle that wrote it and the number of students shown.
Render(c, m) ==
    [summaryCards |-> [cycle |-> c, totalStudents |-> Len(m)],
     studentsTbody |-> [kind |-> "data", cycle |-> c, students |-> Len(m)],
     lastUpdated |-> [kind |-> "time", cycle |-> c]]

\* The catch block: only #studentsTbody and #lastUpdated are rewritten
ReportError(d, c) ==
    [d EXCEPT !.studentsTbody = [kind |-> "error", cycle |-> c, students |-> 0],
              !.lastUpdated = [kind |-> "error", cycle |-> c]]

\* loadAndRender up to its first await: CSV_URLS.map sends one request per sheet
StartCycle(c) ==
    /\ started' = c
    /\ settled' = [settled EXCEPT ![c] = "running"]
    /\ fetch' = [fetch EXCEPT ![c] = [s \in SheetIds |-> "pending"]]
    /\ requests' = [requests EXCEPT ![c] = [s \in SheetIds |-> @[s] + 1]]

\* The state after the script has run: the first call of loadAndRender has
\* sent its requests and the timer is set.
Init ==
    /\ pc = "cycles"
    /\ protoName = <<>>
    /\ started = 1
    /\ settled = [c \in Cycles |-> IF c = 1 THEN "running" ELSE "idle"]
    /\ fetch = [c \in Cycles |-> [s \in SheetIds |-> IF c = 1 THEN "pending" ELSE "idle"]]
    /\ requests = [c \in Cycles |-> [s \in SheetIds |-> IF c = 1 THEN 1 ELSE 0]]
    /\ sheets = [c \in Cycles |-> NoSheets]
    /\ display = InitialDisplay
    /\ map = <<>> /\ todayCounts = [present |-> 0, absent |-> 0, unknown |-> 0]
    /\ fields = <<>> /\ text = <<>> /\ rows = <<>>

\* A tick of the interval timer calls loadAndRender, whatever earlier calls
\* are doing.
Tick ==
    /\ pc = "cycles"
    /\ started < MaxCycles
    /\ StartCycle(started + 1)
    /\ UNCHANGED <<pc, protoName, display, csvVars, buildVars>>

\* The response to cycle c's request for sheet s arrives with res.ok and body
\* txt: the sheet's task parses it.  When it is the last response outstanding
\* and no request of the cycle has failed, Promise.all fulfils and the try
\* block goes on: buildStudentsMap, computeTodayCounts and the three renders,
\* or the catch block when buildStudentsMap throws.
FetchOk(c, s, txt) ==
    /\ pc = "cycles"
    /\ fetch[c][s] = "pending"
    /\ fetch' = [fetch EXCEPT ![c][s] = "ok"]
    /\ sheets' = [sheets EXCEPT ![c][s].rows = parseCSV(txt)]
    /\ IF settled[c] = "running" /\ Fetched(fetch', c) = SheetIds
        THEN LET result == buildStudentsMap(sheets'[c], protoName) IN
            /\ protoName' = result.proto
            /\ IF result.threw
                THEN /\ settled' = [settled EXCEPT ![c] = "failed"]
                     /\ display' = ReportError(display, c)
                     /\ UNCHANGED <<map, todayCounts>>
                ELSE /\ settled' = [settled EXCEPT ![c] = "rendered"]
                     /\ map' = result.map
                     /\ todayCounts' = computeTodayCounts(result.map)
                     /\ display' = Render(c, result.map)
        ELSE UNCHANGED <<protoName, settled, display, map, todayCounts>>
    /\ UNCHANGED <<pc, started, requests, csvVars>>

\* Cycle c's request for sheet s fails (network error or !res.ok): fetchCSV
\* throws, Promise.all rejects on the first failure and the catch block
\* reports it; a failure after the cycle has been rejected changes nothing more.
FetchFail(c, s) ==
    /\ pc = "cycles"
    /\ fetch[c][s] = "pending"
    /\ fetch' = [fetch EXCEPT ![c][s] = "failed"]
    /\ IF settled[c] = "running"
        THEN /\ settled' = [settled EXCEPT ![c] = "failed"]
             /\ display' = ReportError(display, c)
        ELSE UNCHANGED <<settled, display>>
    /\ UNCHANGED <<pc, protoName, started, requests, csvVars, buildVars>>

Next ==
    \/ Tick
    \/ \E c \in Cycles, s \in SheetIds, txt \in Bodies : FetchOk(c, s, txt)
    \/ \E c \in Cycles, s \in SheetIds : FetchFail(c, s)

Spec == Init /\ [][Next]_vars

\* setInterval is never cleared: a tick that stays due is taken
FairSpec == Spec /\ WF_vars(Tick)

(***************************************************************************)
(* Claims about the cycles                                                 *)
(***************************************************************************)
\* Cycles between their start and their render or error report
InProgress == {c \in Cycles : settled[c] = "running"}

\* C1 as stated: at most one cycle is in progress at any moment; a tick never
\* starts a cycle while an earlier cycle has not completed.
C1_CyclesNeverOverlap == Cardinality(InProgress) <= 1

\* The cycles whose output is on the page (cycle 0 is the static page)
ShownCycles ==
    {display.summaryCards.cycle, display.studentsTbody.cycle, display.lastUpdated.cycle} \ {0}

\* C2 as stated: a cycle with a failed fetch shows nothing of its sheets, the
\* data shown by a cycle comes from all of its sheets, and the display is
\* never a mix of parts written by different cycles.
C2_AllOrNothing ==
    /\ \A c \in Cycles :
        /\ (\E s \in SheetIds : fetch[c][s] = "failed") =>
                ~(display.studentsTbody.kind = "data" /\ display.studentsTbody.cycle = c)
        /\ settled[c] = "rendered" => Fetched(fetch, c) = SheetIds
    /\ Cardinality(ShownCycles) <= 1

\* C9 as stated: each sheet is requested at most once per cycle; a failure
\* ends only its own cycle; once an error is shown the timer starts a further
\* cycle, which requests every sheet again; and a cycle all of whose fetches
\* succeed replaces an earlier cycle's error display with its own data.
C9_FailedCycleIsRetriedBySchedule ==
    /\ [](\A c \in Cycles, s \in SheetIds : requests[c][s] <= 1)
    /\ [][\A c \in Cycles :
            (settled[c] = "running" /\ settled'[c] = "failed") =>
                \A d \in Cycles \ {c} : settled'[d] = settled[d] /\ fetch'[d] = fetch[d]]_vars
    /\ \A n \in 1..(MaxCycles - 1) :
            (started = n /\ display.studentsTbody.kind = "error") ~> (started = n + 1)
    /\ [][started' # started =>
            /\ started' = started + 1
            /\ \A s \in SheetIds : fetch'[started'][s] = "pending" /\ requests'[started'][s] = 1]_vars
    /\ [][\A c \in Cycles :
            (/\ display.studentsTbody.kind = "error"
             /\ display.studentsTbody.cycle < c
             /\ settled[c] = "running"
             /\ Fetched(fetch, c) # SheetIds
             /\ Fetched(fetch', c) = SheetIds) =>
                (display'.studentsTbody.kind = "data" /\ display'.studentsTbody.cycle = c)]_vars

\* C10 as stated: once every started cycle has finished, and the cycle
\* started last has rendered, the page shows that cycle's data: no cycle
\* started earlier has written over it.
C10_LastStartedCycleWins ==
    (InProgress = {} /\ settled[started] = "rendered") =>
        /\ display.studentsTbody.kind = "data"
        /\ display.studentsTbody.cycle = started
        /\ display.summaryCards.cycle = started
        /\ display.lastUpdated.cycle = started

====
